---- MODULE Spec2Model ----
(***************************************************************************)
(* Model of PupilTrackerGUI.py: the PupilTracker image-processing class,   *)
(* the ImagePanel playback driver, the ToolsPanel button handlers and the  *)
(* MyFrame glue.                                                           *)
(*                                                                         *)
(* Images are abstracted to the list of contours OpenCV would find in      *)
(* them (per binarisation threshold, in discovery order) plus the set of   *)
(* annotations drawn on them.  A contour is reported for a crop when its   *)
(* bounding box lies inside the processed sub-rectangle.  Centres are kept *)
(* in half pixels, so that int() of a fitted centre is a real truncation.  *)
(*                                                                         *)
(* Every method is an operator from a state record (one field per object   *)
(* attribute) to a result [s, exc, val]: the state after the call, the     *)
(* exception it raised ("none" when it returned) and its return value.     *)
(***************************************************************************)
EXTENDS Integers, Sequences, FiniteSets, TLC

VARIABLES
    cap, pos,                 \* PupilTracker.cap and the capture's CAP_PROP_POS_FRAMES
    frame, orig_image,        \* PupilTracker.frame / orig_image
    dx, dy,                   \* PupilTracker crop offset
    roi_pupil, roi_refle,     \* PupilTracker ROI slots
    image_bmp, timer,         \* ImagePanel.image_bmp, ImagePanel.fps_timer running
    pupil_index, refle_index, \* ToolsPanel candidate indices
    playing,                  \* MyFrame.playing
    op, args, exc, calls,     \* observation: last top-level call, its arguments,
                              \* the exception it surfaced, the internal events
    cv_raises,                \* the OpenCV build raises on an empty image (fixed per run)
    sel_pupil, sel_refle,     \* observation: centroid a draw chose during the last call
    scenario                  \* observation of direct calls: 1, 2, 3 after load,
                              \* then track_pupil, then track_refle; 4 after a
                              \* get_orig_frame that returned, 5 after the next;
                              \* of button presses: 6 after play pressed twice
                              \* in a row, 7 after stop pressed twice in a row

vars == <<cap, pos, frame, orig_image, dx, dy, roi_pupil, roi_refle,
          image_bmp, timer, pupil_index, refle_index, playing, cv_raises,
          op, args, exc, calls, sel_pupil, sel_refle, scenario>>

----------------------------------------------------------------------------
(* Bounds of the model *)

MaxIndex == 3       \* the button handlers are not fired once an index reached it
MaxArgIndex == 1    \* direct calls pass index None or in -1..MaxArgIndex
MaxDepth == 3       \* stand-in for the interpreter's recursion limit

(* Program constants *)

FrameW == 960
FrameH == 540
PupilHalf == 100
RefleHalf == 15
PupilThresh == 45
RefleThresh == 200
PupilAreaMin == 1000
PupilAreaMax == 5000
MinHullPoints == 5
MaxCircularity10 == 16    \* 1.6, in tenths
RefleAreaMin == 25
RefleAreaMax == 500

----------------------------------------------------------------------------
(* Python values *)

None == <<>>
Some(x) == <<x>>
Get(o) == o[1]

R(s, e, v) == [s |-> s, exc |-> e, val |-> v]
Ok(s, v) == R(s, "none", v)
Raise(s, e) == R(s, e, None)
Log(s, ev) == [s EXCEPT !.calls = Append(@, ev)]

\* statements in sequence: an exception raised by the first call ends them,
\* otherwise K continues from the first call's result
Then(r, K(_)) == IF r.exc # "none" THEN r ELSE K(r)
\* a local variable: v is evaluated once and named in F
Let(v, F(_)) == F(v)

\* int(x) of a float given in half units: truncation toward zero
PyInt2(x2) == IF x2 >= 0 THEN x2 \div 2 ELSE -((-x2) \div 2)

\* start/stop of a slice a[i:j] normalised against a length n
PyIndex(i, n) ==
    IF i < 0 THEN (IF i + n < 0 THEN 0 ELSE i + n)
             ELSE (IF i > n THEN n ELSE i)

\* lst[index]: negative indices count from the end
PyInRange(n, index) == index >= -n /\ index < n
PyItem(lst, index) == IF index < 0 THEN lst[Len(lst) + index + 1] ELSE lst[index + 1]

----------------------------------------------------------------------------
(* The frame source: a small library of clips of raw 1920x1080 frames.     *)
(* A raw contour: threshold at which it appears, centre (raw px), half     *)
(* extent, enclosed area, hull points, circularity*10, min-area-rect w, h. *)

C(thr, x, y, r, area, hull, circ, w, h) ==
    [thr |-> thr, x |-> x, y |-> y, r |-> r, area |-> area, hull |-> hull,
     circ |-> circ, w |-> w, h |-> h]

RawFrame(id, shapes) == [id |-> id, w |-> 2 * FrameW, h |-> 2 * FrameH, shapes |-> shapes]

Clip1 ==
    << RawFrame(11, << C(45, 601, 501, 60, 8000, 12, 11, 100, 100),
                       C(200, 621, 509, 12, 400, 4, 13, 20, 20),
                       C(45, 1400, 600, 60, 9600, 10, 12, 110, 110),
                       C(45, 300, 900, 100, 24000, 20, 11, 170, 170),
                       C(200, 900, 200, 20, 480, 4, 30, 60, 8) >>),
       RawFrame(12, << C(45, 620, 500, 60, 8000, 12, 11, 100, 100),
                       C(200, 641, 509, 12, 400, 4, 13, 20, 20),
                       C(45, 1400, 600, 60, 9600, 10, 20, 160, 70) >>),
       RawFrame(13, << C(45, 150, 500, 60, 8000, 12, 11, 100, 100),
                       C(200, 171, 509, 12, 400, 4, 13, 20, 20) >>) >>

Clip2 ==
    << RawFrame(21, << C(45, 800, 500, 40, 3600, 4, 12, 60, 60),
                       C(200, 900, 200, 4, 60, 4, 13, 8, 8) >>) >>

Clip3 == << >>

Clips == << Clip1, Clip2, Clip3 >>
ClipIds == 1..Len(Clips)

----------------------------------------------------------------------------
(* OpenCV *)

\* cv2.resize(img, (0, 0), fx=0.5, fy=0.5).  An image value is its size, the
\* identity of its pixel content and the annotations drawn on it; Shapes
\* gives the contours of that content at the image's scale.
Resize(raw) ==
    [id |-> raw.id, w |-> raw.w \div 2, h |-> raw.h \div 2, ann |-> {}]

Halve(c) ==
    [thr |-> c.thr, cx2 |-> c.x, cy2 |-> c.y, r |-> (c.r + 1) \div 2,
     area |-> c.area \div 4, hull |-> c.hull, circ |-> c.circ,
     w |-> c.w \div 2, h |-> c.h \div 2]

RawFrames == UNION {{Clips[v][i] : i \in 1..Len(Clips[v])} : v \in ClipIds}

\* the contours of every frame's content, at the scale of the resized image
ShapesById ==
    [id \in {raw.id : raw \in RawFrames} |->
        LET raw == CHOOSE f \in RawFrames : f.id = id
        IN [i \in 1..Len(raw.shapes) |-> Halve(raw.shapes[i])]]

Shapes(img) == ShapesById[img.id]

\* img[y0:y1, x0:x1]
Slice(img, roi) ==
    [x0 |-> PyIndex(roi[1][1], img.w), x1 |-> PyIndex(roi[2][1], img.w),
     y0 |-> PyIndex(roi[1][2], img.h), y1 |-> PyIndex(roi[2][2], img.h)]

Whole(img) == [x0 |-> 0, x1 |-> img.w, y0 |-> 0, y1 |-> img.h]

IsEmpty(rect) == rect.x1 <= rect.x0 \/ rect.y1 <= rect.y0

\* a contour is found in a crop when its bounding box lies inside the crop
Visible(c, rect) ==
    /\ c.cx2 - 2 * c.r >= 2 * rect.x0
    /\ c.cx2 + 2 * c.r <= 2 * rect.x1
    /\ c.cy2 - 2 * c.r >= 2 * rect.y0
    /\ c.cy2 + 2 * c.r <= 2 * rect.y1

Shift(c, ddx, ddy) == [c EXCEPT !.cx2 = @ + 2 * ddx, !.cy2 = @ + 2 * ddy]

\* threshold + morphologyEx + findContours on a processed crop: the contours
\* of the binarisation, in discovery order, in crop coordinates
FindContours(gray, thr) ==
    LET vis(c) == c.thr = thr /\ Visible(c, gray.rect)
        found == SelectSeq(Shapes(gray.img), vis)
    IN [i \in 1..Len(found) |-> Shift(found[i], -gray.rect.x0, -gray.rect.y0)]

----------------------------------------------------------------------------
(* class PupilTracker *)


\* variant of ingest that drops the tracked regions with every frame read
ingest_clearing(self, raw) ==
    LET fr == Resize(raw)
    IN [self EXCEPT !.orig_image = Some(fr), !.frame = Some(fr),
                    !.roi_pupil = None, !.roi_refle = None]

\* next_frame, the branch taken when cap.read() returned a frame
ingest(self, raw) ==
    LET fr == Resize(raw)
    IN [self EXCEPT !.orig_image = Some(fr), !.frame = Some(fr)]


\* variant of rewind_and_clear that drops the frame instead of the regions
rewind_and_drop_frame(self) == [self EXCEPT !.pos = 0, !.frame = None, !.orig_image = None]

\* variant of rewind_and_clear that keeps the tracked regions
rewind_only(self) == [self EXCEPT !.pos = 0]

\* next_frame, the first statements of the branch taken when cap.read() failed
rewind_and_clear(self) ==
    [self EXCEPT !.pos = 0, !.roi_pupil = None, !.roi_refle = None]

\* ImagePanel.load_image, reached through MyFrame.load_video
load_image(self, img) == [self EXCEPT !.image_bmp = img]

RECURSIVE next_frame(_, _), load_first_frame(_, _)

next_frame(self, depth) ==
    IF depth > MaxDepth THEN Raise(Log(self, "RuntimeError"), "RuntimeError")
    ELSE IF self.cap # None
    THEN Let(Clips[Get(self.cap)], LAMBDA clip :
           IF self.pos < Len(clip)
           THEN Ok(ingest(Log([self EXCEPT !.pos = @ + 1], "read"), clip[self.pos + 1]), None)
           ELSE Then(load_first_frame(rewind_and_clear(Log(self, "read_failed")), depth + 1),
                     LAMBDA r : Raise(Log(r.s, "EOFError"), "EOFError")))
    ELSE Raise(Log(self, "IOError"), "IOError")

load_first_frame(self, depth) ==
    Then(next_frame(self, depth),
         LAMBDA r : Ok([load_image(r.s, r.s.frame) EXCEPT !.pos = 0], None))

\* cv2.VideoCapture(video_file) followed by load_first_frame
load_video(self, video_file) ==
    load_first_frame([self EXCEPT !.cap = Some(video_file), !.pos = 0], 0)

get_frame(self) == self.frame


\* variant of get_orig_frame that hands the original over instead of copying it
get_orig_frame_once(self) ==
    IF self.orig_image # None
    THEN Ok([self EXCEPT !.frame = self.orig_image, !.orig_image = None,
                         !.roi_pupil = None, !.roi_refle = None],
            self.orig_image)
    ELSE Raise(self, "AttributeError")

get_orig_frame(self) ==
    IF self.orig_image # None
    THEN Ok([self EXCEPT !.frame = self.orig_image,
                         !.roi_pupil = None, !.roi_refle = None],
            self.orig_image)
    ELSE Raise(self, "AttributeError")

\* the result is the processed crop: the image and the sub-rectangle of it
\* that the slice selected.  On an empty crop OpenCV either raises or goes on
\* with an empty image, depending on the build (self.cv_raises).
process_image(self, img, roi) ==
    IF roi # None
    THEN LET s1 == Log([self EXCEPT !.dx = Some(roi[1][1]), !.dy = Some(roi[1][2])],
                       "process_image")
         IN IF img = None THEN Raise(s1, "TypeError")
            ELSE LET rect == Slice(Get(img), roi)
                 IN IF IsEmpty(rect) /\ self.cv_raises THEN Raise(s1, "cv2.error")
                    ELSE Ok(s1, [img |-> Get(img), rect |-> rect])
    ELSE LET s1 == Log([self EXCEPT !.dx = Some(0), !.dy = Some(0)], "process_image")
         IN IF img = None THEN Raise(s1, "TypeError")
            ELSE Ok(s1, [img |-> Get(img), rect |-> Whole(Get(img))])


\* variant of pupil_area_ok without the upper limit
pupil_area_ok_unbounded(area) == area # 0 /\ PupilAreaMin < area

pupil_area_ok(area) == area # 0 /\ (PupilAreaMin < area /\ area < PupilAreaMax)
pupil_hull_ok(hull) == ~(hull < MinHullPoints)
pupil_circularity_ok(circ) == ~(circ >= MaxCircularity10)

find_pupils(self, roi) ==
    Then(process_image(self, self.frame, roi), LAMBDA g :
        LET contours_pupil == FindContours(g.val, PupilThresh)
            keep(cnt) == /\ pupil_area_ok(cnt.area)
                         /\ pupil_hull_ok(cnt.hull)
                         /\ pupil_circularity_ok(cnt.circ)
            kept == SelectSeq(contours_pupil, keep)
            found_pupils == [i \in 1..Len(kept) |->
                                Shift(kept[i], Get(g.s.dx), Get(g.s.dy))]
        IN Ok(g.s, found_pupils))


\* variant of pupil_roi with the reflection's half size
pupil_roi_small(cx, cy) ==
    << <<cx - RefleHalf, cy - RefleHalf>>, <<cx + RefleHalf, cy + RefleHalf>> >>

pupil_roi(cx, cy) == << <<cx - PupilHalf, cy - PupilHalf>>, <<cx + PupilHalf, cy + PupilHalf>> >>


\* variant of mark_pupil whose frame shares its pixels with the original copy
mark_pupil_aliased(self, cnt, verbose) ==
    LET cx == PyInt2(cnt.cx2)
        cy == PyInt2(cnt.cy2)
        drawn == {<<"pupil_circle", cx, cy>>} \cup
                 (IF verbose THEN {<<"pupil_verbose", cx, cy>>} ELSE {})
        fr == [Get(self.frame) EXCEPT !.ann = @ \cup drawn]
    IN [self EXCEPT !.frame = Some(fr),
                    !.orig_image = Some(fr),
                    !.roi_pupil = pupil_roi(cx, cy),
                    !.sel_pupil = Some(<<cx, cy>>)]

\* draw_pupil from the ellipse fit on: annotate the frame, set the ROI
mark_pupil(self, cnt, verbose) ==
    LET cx == PyInt2(cnt.cx2)
        cy == PyInt2(cnt.cy2)
        drawn == {<<"pupil_circle", cx, cy>>} \cup
                 (IF verbose THEN {<<"pupil_verbose", cx, cy>>} ELSE {})
        fr == [Get(self.frame) EXCEPT !.ann = @ \cup drawn]
    IN [self EXCEPT !.frame = Some(fr),
                    !.roi_pupil = pupil_roi(cx, cy),
                    !.sel_pupil = Some(<<cx, cy>>)]

draw_pupil(self, index, roi, verbose) ==
    Then(find_pupils(Log(self, "draw_pupil"), roi), LAMBDA f :
        LET idx == IF index = None THEN 0 ELSE Get(index)
            cnt_list == f.val
        IN IF Len(cnt_list) > 0
           THEN IF PyInRange(Len(cnt_list), idx)
                THEN Ok(mark_pupil(f.s, PyItem(cnt_list, idx), verbose), None)
                ELSE Raise(f.s, "IndexError")
           ELSE Raise(f.s, "AttributeError"))


\* variant of swallow that gives up the tracked regions when a search fails
swallow_and_forget(r) ==
    IF r.exc \in {"IndexError", "AttributeError"}
    THEN Ok([r.s EXCEPT !.roi_pupil = None, !.roi_refle = None], None)
    ELSE r

\* the except clauses of track_pupil / track_refle
swallow(r) ==
    IF r.exc \in {"IndexError", "AttributeError"} THEN Ok(r.s, None) ELSE r


\* variant of track_pupil that searches the whole frame when no region is set
track_pupil_eager(self) ==
    swallow(draw_pupil(Log(self, "track_pupil"), None, self.roi_pupil, TRUE))

track_pupil(self) ==
    IF self.roi_pupil # None
    THEN swallow(draw_pupil(Log(self, "track_pupil"), None, self.roi_pupil, TRUE))
    ELSE Ok(Log(self, "track_pupil"), None)

refle_area_ok(area) == area # 0 /\ (RefleAreaMin < area /\ area < RefleAreaMax)
\* 0.5 < h/w < 2
refle_square_ok(w, h) == 2 * h > w /\ h < 2 * w
\* the centre test of find_refle, against the stored reflection ROI
refle_center_ok(self, cnt) ==
    LET cx == PyInt2(cnt.cx2)
        cy == PyInt2(cnt.cy2)
        box == self.roi_refle
    IN ~( ~(box[1][1] < cx /\ cx < box[2][1]) \/ ~(box[1][2] < cy /\ cy < box[2][2]) )

find_refle(self, roi) ==
    Then(process_image(self, self.frame, self.roi_pupil), LAMBDA g :
        LET contours_refle == FindContours(g.val, RefleThresh)
            sized == SelectSeq(contours_refle, LAMBDA c : refle_area_ok(c.area))
            moved == [i \in 1..Len(sized) |-> Shift(sized[i], Get(g.s.dx), Get(g.s.dy))]
        IN Let(SelectSeq(moved, LAMBDA c : refle_square_ok(c.w, c.h)), LAMBDA square :
             IF roi # None
             THEN IF square # <<>> /\ g.s.roi_refle = None
                  THEN Raise(g.s, "TypeError")
                  ELSE Ok(g.s, SelectSeq(square, LAMBDA c : refle_center_ok(g.s, c)))
             ELSE Ok(g.s, square)))

refle_roi(cx, cy) == << <<cx - RefleHalf, cy - RefleHalf>>, <<cx + RefleHalf, cy + RefleHalf>> >>

mark_refle(self, cnt, verbose) ==
    LET cx == PyInt2(cnt.cx2)
        cy == PyInt2(cnt.cy2)
        drawn == {<<"refle_circle", cx, cy>>} \cup
                 (IF verbose THEN {<<"refle_verbose", cx, cy>>} ELSE {})
        fr == [Get(self.frame) EXCEPT !.ann = @ \cup drawn]
    IN [self EXCEPT !.roi_refle = refle_roi(cx, cy),
                    !.frame = Some(fr),
                    !.sel_refle = Some(<<cx, cy>>)]

draw_refle(self, index, roi, verbose) ==
    Then(find_refle(Log(self, "draw_refle"), roi), LAMBDA f :
        LET idx == IF index = None THEN 0 ELSE Get(index)
            cnt_list == f.val
        IN IF Len(cnt_list) > 0
           THEN IF PyInRange(Len(cnt_list), idx)
                THEN Ok(mark_refle(f.s, PyItem(cnt_list, idx), verbose), None)
                ELSE Raise(f.s, "IndexError")
           ELSE Raise(f.s, "AttributeError"))


\* variant of track_refle that searches when no reflection region is set
track_refle_eager(self) ==
    swallow(draw_refle(Log(self, "track_refle"), None, None, TRUE))

track_refle(self) ==
    IF self.roi_refle # None
    THEN swallow(draw_refle(Log(self, "track_refle"), None, self.roi_refle, TRUE))
    ELSE Ok(Log(self, "track_refle"), None)

----------------------------------------------------------------------------
(* class ImagePanel *)

start_timer(self) == [self EXCEPT !.timer = TRUE]
stop_timer(self) == [self EXCEPT !.timer = FALSE]

\* self.image_bmp.CopyFromBuffer(self.app.tracker.get_frame())
copy_from_buffer(self) ==
    IF self.image_bmp = None THEN Raise(self, "AttributeError")
    ELSE IF get_frame(self) = None THEN Raise(self, "TypeError")
    ELSE Ok([self EXCEPT !.image_bmp = get_frame(self)], None)


\* variant of stop_playback that leaves the timer running
stop_playback_timer_on(self) == [self EXCEPT !.playing = FALSE]

\* the except clauses of ImagePanel.draw
stop_playback(self) == stop_timer([self EXCEPT !.playing = FALSE])


\* variant of ImagePanel_draw that updates the reflection before the pupil
ImagePanel_draw_refle_first(self) ==
    IF self.playing
    THEN Let(next_frame(Log(self, "draw"), 0), LAMBDA n :
           IF n.exc \in {"EOFError", "IOError"} THEN Ok(stop_playback(n.s), None)
           ELSE IF n.exc # "none" THEN n
           ELSE Then(track_refle(n.s), LAMBDA p :
                Then(track_pupil(p.s), LAMBDA q :
                copy_from_buffer(q.s))))
    ELSE copy_from_buffer(Log(self, "draw"))

ImagePanel_draw(self) ==
    IF self.playing
    THEN Let(next_frame(Log(self, "draw"), 0), LAMBDA n :
           IF n.exc \in {"EOFError", "IOError"} THEN Ok(stop_playback(n.s), None)
           ELSE IF n.exc # "none" THEN n
           ELSE Then(track_pupil(n.s), LAMBDA p :
                Then(track_refle(p.s), LAMBDA q :
                copy_from_buffer(q.s))))
    ELSE copy_from_buffer(Log(self, "draw"))

----------------------------------------------------------------------------
(* class MyFrame *)

MyFrame_clear(self, draw) ==
    Then(get_orig_frame(Log(self, "clear")), LAMBDA g :
        IF draw THEN ImagePanel_draw(g.s) ELSE Ok(g.s, None))

MyFrame_draw_pupil(self, index) ==
    Then(MyFrame_clear(self, FALSE), LAMBDA c :
    Then(IF index # -1 THEN draw_pupil(c.s, Some(index), None, TRUE) ELSE Ok(c.s, None),
         LAMBDA d :
    ImagePanel_draw(d.s)))

MyFrame_draw_refle(self, p_index, r_index) ==
    Then(MyFrame_clear(self, FALSE), LAMBDA c :
    Then(IF p_index # -1
         THEN Then(draw_pupil(c.s, Some(p_index), None, TRUE), LAMBDA dp :
                   ImagePanel_draw(dp.s))
         ELSE Ok(c.s, None),
         LAMBDA d :
    Then(draw_refle(d.s, Some(r_index), None, TRUE), LAMBDA e :
    ImagePanel_draw(e.s))))


\* variant of MyFrame_play whose timer call toggles the timer
MyFrame_play_toggle(self) == [self EXCEPT !.timer = ~self.timer, !.playing = TRUE]

MyFrame_play(self) == [start_timer(self) EXCEPT !.playing = TRUE]
MyFrame_stop(self) == [stop_timer(self) EXCEPT !.playing = FALSE]

----------------------------------------------------------------------------
(* class ToolsPanel *)

reset_indices(self) == [self EXCEPT !.pupil_index = -1, !.refle_index = -1]

RECURSIVE on_find_pupil_button(_, _)
on_find_pupil_button(self, depth) ==
    IF depth > MaxDepth THEN Raise(Log(self, "RuntimeError"), "RuntimeError")
    ELSE Let([self EXCEPT !.pupil_index = @ + 1], LAMBDA s1 :
         Let(MyFrame_draw_pupil(s1, s1.pupil_index), LAMBDA r :
           IF r.exc = "IndexError"
           THEN on_find_pupil_button([r.s EXCEPT !.pupil_index = -1], depth + 1)
           ELSE IF r.exc = "AttributeError" THEN Ok(Log(r.s, "print"), None)
           ELSE r))

RECURSIVE on_find_refle_button(_, _)
on_find_refle_button(self, depth) ==
    IF depth > MaxDepth THEN Raise(Log(self, "RuntimeError"), "RuntimeError")
    ELSE Let([self EXCEPT !.refle_index = @ + 1], LAMBDA s1 :
         Let(MyFrame_draw_refle(s1, s1.pupil_index, s1.refle_index), LAMBDA r :
           IF r.exc = "IndexError"
           THEN on_find_refle_button([r.s EXCEPT !.refle_index = -1], depth + 1)
           ELSE IF r.exc = "AttributeError" THEN Ok(Log(r.s, "print"), None)
           ELSE r))


\* variant of on_clear_button without the except clause
on_clear_button_uncaught(self) ==
    Then(MyFrame_clear(self, TRUE), LAMBDA r : Ok(reset_indices(r.s), None))

on_clear_button(self) ==
    Let(MyFrame_clear(self, TRUE), LAMBDA r :
        IF r.exc = "AttributeError" THEN Ok(Log(r.s, "print"), None)
        ELSE Then(r, LAMBDA c : Ok(reset_indices(c.s), None)))

\* video_file = None stands for the cancelled file dialog
on_load_button(self, video_file) ==
    LET s1 == reset_indices(self)
    IN IF video_file = None THEN Ok(s1, None)
       ELSE load_video(s1, Get(video_file))

on_play_button(self) == Ok(MyFrame_play(reset_indices(self)), None)

on_stop_button(self) == Ok(MyFrame_stop(self), None)

----------------------------------------------------------------------------
(* State machine *)

\* Every action is one top-level call.  The observation variables describe
\* that call only: calls, sel_pupil and sel_refle start empty in Self.

NoArgs == [index |-> None, roi |-> None, verbose |-> FALSE, video |-> None]

\* the objects' attributes as one record
Self ==
    [cap |-> cap, pos |-> pos, frame |-> frame, orig_image |-> orig_image,
     dx |-> dx, dy |-> dy, roi_pupil |-> roi_pupil, roi_refle |-> roi_refle,
     image_bmp |-> image_bmp, timer |-> timer,
     pupil_index |-> pupil_index, refle_index |-> refle_index, playing |-> playing,
     sel_pupil |-> None, sel_refle |-> None, calls |-> <<>>, cv_raises |-> cv_raises]

\* the result of the call becomes the next state
Commit(r, name, a, sc) ==
    /\ cap' = r.s.cap /\ pos' = r.s.pos
    /\ frame' = r.s.frame /\ orig_image' = r.s.orig_image
    /\ dx' = r.s.dx /\ dy' = r.s.dy
    /\ roi_pupil' = r.s.roi_pupil /\ roi_refle' = r.s.roi_refle
    /\ image_bmp' = r.s.image_bmp /\ timer' = r.s.timer
    /\ pupil_index' = r.s.pupil_index /\ refle_index' = r.s.refle_index
    /\ playing' = r.s.playing
    /\ sel_pupil' = r.s.sel_pupil /\ sel_refle' = r.s.sel_refle
    /\ calls' = r.s.calls
    /\ op' = name /\ args' = a /\ exc' = r.exc
    /\ scenario' = sc
    /\ UNCHANGED cv_raises

Init ==
    /\ cap = None /\ pos = 0
    /\ frame = None /\ orig_image = None
    /\ dx = None /\ dy = None
    /\ roi_pupil = None /\ roi_refle = None
    /\ image_bmp = None /\ timer = FALSE
    /\ pupil_index = -1 /\ refle_index = -1
    /\ playing = FALSE
    /\ cv_raises \in BOOLEAN
    /\ op = "init" /\ args = NoArgs /\ exc = "none" /\ calls = <<>>
    /\ sel_pupil = None /\ sel_refle = None
    /\ scenario = 0

(* The application: button presses and timer ticks, one event at a time.   *)
(* Each action evaluates the handler once, as r.                           *)

FindPupilButton ==
    /\ pupil_index < MaxIndex
    /\ \E r \in {on_find_pupil_button(Self, 0)} :
           Commit(r, "on_find_pupil_button", NoArgs, 0)

FindRefleButton ==
    /\ refle_index < MaxIndex
    /\ \E r \in {on_find_refle_button(Self, 0)} :
           Commit(r, "on_find_refle_button", NoArgs, 0)

ClearButton ==
    \E r \in {on_clear_button(Self)} :
        Commit(r, "on_clear_button", NoArgs, 0)

LoadButton ==
    \E v \in {None} \cup {Some(i) : i \in ClipIds} :
        \E r \in {on_load_button(Self, v)} :
            Commit(r, "on_load_button", [NoArgs EXCEPT !.video = v], 0)

PlayButton ==
    \E r \in {on_play_button(Self)} :
        Commit(r, "on_play_button", NoArgs, IF op = "on_play_button" THEN 6 ELSE 0)

StopButton ==
    \E r \in {on_stop_button(Self)} :
        Commit(r, "on_stop_button", NoArgs, IF op = "on_stop_button" THEN 7 ELSE 0)

TimerTick ==
    /\ timer
    /\ \E r \in {ImagePanel_draw(Self)} :
           Commit(r, "tick", NoArgs, 0)

Next ==
    \/ FindPupilButton
    \/ FindRefleButton
    \/ ClearButton
    \/ LoadButton
    \/ PlayButton
    \/ StopButton
    \/ TimerTick

Spec == Init /\ [][Next]_vars

(* The tracker driven directly by a client, as a library *)

IndexArgs == {None} \cup {Some(i) : i \in (-1)..MaxArgIndex}
RoiArgs == {None, roi_pupil, roi_refle}
\* a rectangle of the caller's own, away from every reflection of the clips
CallerRoi == << <<0, 0>>, <<40, 40>> >>

CallLoadVideo ==
    \E v \in ClipIds :
        \E r \in {load_video(Self, v)} :
            Commit(r, "load_video", [NoArgs EXCEPT !.video = Some(v)],
                   IF r.exc = "none" /\ r.s.roi_pupil = None /\ r.s.roi_refle = None
                   THEN 1 ELSE 0)

CallNextFrame ==
    \E r \in {next_frame(Self, 0)} :
        Commit(r, "next_frame", NoArgs,
               IF r.exc = "none" /\ r.s.roi_pupil = None /\ r.s.roi_refle = None
               THEN 1 ELSE 0)

CallGetOrigFrame ==
    \E r \in {get_orig_frame(Self)} :
        Commit(r, "get_orig_frame", NoArgs,
               IF scenario \in {4, 5} THEN 5 ELSE IF r.exc = "none" THEN 4 ELSE 0)

CallFindPupils ==
    \E roi \in RoiArgs :
        \E r \in {find_pupils(Self, roi)} :
            Commit(r, "find_pupils", [NoArgs EXCEPT !.roi = roi], 0)

CallFindRefle ==
    \E roi \in RoiArgs \cup {CallerRoi} :
        \E r \in {find_refle(Self, roi)} :
            Commit(r, "find_refle", [NoArgs EXCEPT !.roi = roi], 0)

CallDrawPupil ==
    \E index \in IndexArgs, roi \in RoiArgs, verbose \in BOOLEAN :
        \E r \in {draw_pupil(Self, index, roi, verbose)} :
            Commit(r, "draw_pupil",
                   [NoArgs EXCEPT !.index = index, !.roi = roi, !.verbose = verbose], 0)

CallDrawRefle ==
    \E index \in IndexArgs, roi \in RoiArgs, verbose \in BOOLEAN :
        \E r \in {draw_refle(Self, index, roi, verbose)} :
            Commit(r, "draw_refle",
                   [NoArgs EXCEPT !.index = index, !.roi = roi, !.verbose = verbose], 0)

CallTrackPupil ==
    \E r \in {track_pupil(Self)} :
        Commit(r, "track_pupil", NoArgs, IF scenario = 1 THEN 2 ELSE 0)

CallTrackRefle ==
    \E r \in {track_refle(Self)} :
        Commit(r, "track_refle", NoArgs, IF scenario = 2 THEN 3 ELSE 0)

NextAPI ==
    \/ CallLoadVideo
    \/ CallNextFrame
    \/ CallGetOrigFrame
    \/ CallFindPupils
    \/ CallFindRefle
    \/ CallDrawPupil
    \/ CallDrawRefle
    \/ CallTrackPupil
    \/ CallTrackRefle

SpecAPI == Init /\ [][NextAPI]_vars

----------------------------------------------------------------------------
(* Properties *)

Has(seq, ev) == \E i \in 1..Len(seq) : seq[i] = ev
Centroid(cnt) == <<PyInt2(cnt.cx2), PyInt2(cnt.cy2)>>
Square(c, half) == << <<c[1] - half, c[2] - half>>, <<c[1] + half, c[2] + half>> >>

Ingested == op \in {"next_frame", "load_video"} /\ exc = "none"

\* C1 as stated: after every successful frame ingestion the frame and the
\* original copy hold the same image and both ROI slots are unset.
C1_IngestionClearsRois ==
    Ingested => (frame # None /\ frame = orig_image /\ roi_pupil = None /\ roi_refle = None)

\* C1 amended: a successful frame ingestion stores the downsampled image of
\* the frame read as both the current frame and the original copy, and leaves
\* both ROI slots exactly as they were.
C1_IngestionKeepsRois ==
    [][ Ingested' =>
          /\ frame' = Some(Resize(Clips[Get(cap')][IF op' = "load_video" THEN 1 ELSE pos + 1]))
          /\ orig_image' = frame'
          /\ roi_pupil' = roi_pupil
          /\ roi_refle' = roi_refle ]_vars

C1_Witness ==
    /\ op = "next_frame" /\ exc = "none"
    /\ roi_pupil # None /\ roi_refle # None

HasPupilCandidate == find_pupils(Self, None).val # <<>>
HasRefleCandidate == find_refle(Self, None).val # <<>>

\* C2 as stated: load, then track_pupil, then track_refle on a frame with a
\* pupil candidate and a reflection candidate leaves both ROI slots set.
C2_TrackAfterLoadTracks ==
    (scenario = 3 /\ HasPupilCandidate /\ HasRefleCandidate)
        => (roi_pupil # None /\ roi_refle # None)

\* C2 amended: load (ROI slots unset), then track_pupil, then track_refle
\* returns normally and leaves both ROI slots unset and the frame
\* unannotated, whatever candidates the frame holds.
C2_TrackAfterLoadStaysUnconfirmed ==
    scenario = 3 =>
        /\ exc = "none"
        /\ roi_pupil = None /\ roi_refle = None
        /\ frame # None /\ frame = orig_image

C2_Witness == scenario = 3 /\ HasPupilCandidate /\ HasRefleCandidate

\* C3: track_pupil with the pupil ROI unset, and track_refle with the
\* reflection ROI unset (whatever the pupil ROI), return normally without a
\* search and leave frame, both ROI slots and the crop offset unchanged.
C3_TrackUnsetIsNoOp ==
    [][ ( \/ (op' = "track_pupil" /\ roi_pupil = None)
          \/ (op' = "track_refle" /\ roi_refle = None) )
        => /\ exc' = "none"
           /\ ~Has(calls', "process_image")
           /\ UNCHANGED <<frame, orig_image, roi_pupil, roi_refle, dx, dy>> ]_vars

C3_Witness ==
    /\ op = "track_refle" /\ roi_refle = None /\ roi_pupil # None
    /\ HasRefleCandidate

PupilSearchFails ==
    LET f == find_pupils(Self, roi_pupil) IN f.exc = "none" /\ f.val = <<>>
RefleSearchFails ==
    LET f == find_refle(Self, roi_refle) IN f.exc = "none" /\ f.val = <<>>

\* C4: a tracking update whose search finds no candidate returns normally
\* and leaves both ROI slots and the frame as they were; an ROI slot goes
\* from set to unset only in get_orig_frame or in the failed-read branch of
\* next_frame.
C4_FailedTrackKeepsState ==
    [][ /\ ( \/ (op' = "track_pupil" /\ roi_pupil # None /\ PupilSearchFails)
             \/ (op' = "track_refle" /\ roi_refle # None /\ RefleSearchFails) )
           => /\ exc' = "none"
              /\ UNCHANGED <<frame, orig_image, roi_pupil, roi_refle>>
        /\ ( \/ (roi_pupil # None /\ roi_pupil' = None)
             \/ (roi_refle # None /\ roi_refle' = None) )
           => \/ op' = "get_orig_frame"
              \/ (op' \in {"next_frame", "load_video"} /\ Has(calls', "read_failed")) ]_vars

C4_Witness ==
    /\ op = "track_pupil" /\ exc = "none"
    /\ Has(calls, "process_image") /\ sel_pupil = None
    /\ roi_pupil # None /\ frame # None

\* C5: whenever a draw selects a candidate, the ROI slot becomes the
\* 200x200 (pupil) or 30x30 (reflection) square around the candidate's
\* truncated centroid, whatever the verbose flag; the slots are set by
\* nothing else, so a set slot always is such a square.
C5_RoiIsSquareAroundSelected ==
    [][ /\ sel_pupil' # None => roi_pupil' = Square(Get(sel_pupil'), 100)
        /\ sel_refle' # None => roi_refle' = Square(Get(sel_refle'), 15)
        /\ (roi_pupil' # None /\ roi_pupil' # roi_pupil) => sel_pupil' # None
        /\ (roi_refle' # None /\ roi_refle' # roi_refle) => sel_refle' # None
        /\ (op' = "draw_pupil" /\ exc' = "none")
              => sel_pupil' = Some(Centroid(PyItem(find_pupils(Self, args'.roi).val,
                                    IF args'.index = None THEN 0 ELSE Get(args'.index))))
        /\ (op' = "draw_refle" /\ exc' = "none")
              => sel_refle' = Some(Centroid(PyItem(find_refle(Self, args'.roi).val,
                                    IF args'.index = None THEN 0 ELSE Get(args'.index))))
      ]_vars

C5_Witness ==
    /\ op = "draw_pupil" /\ exc = "none" /\ ~args.verbose
    /\ sel_pupil # None
    /\ roi_pupil = Square(Get(sel_pupil), 100)
    /\ roi_refle # None /\ roi_refle[2][1] - roi_refle[1][1] = 30

Count(seq, ev) == Cardinality({i \in 1..Len(seq) : seq[i] = ev})
ClipLoaded == IF cap = None THEN <<>> ELSE Clips[Get(cap)]

\* C6: a timer tick whose read fails on a clip with at least one frame
\* raises EOFError once, ends with the position at 0, both ROI slots unset,
\* the unannotated first frame as current frame, no tracking update run,
\* playing false and the timer stopped; play leaves the position alone and
\* the next read takes the frame at the position, so playback resumes with
\* the first frame.
C6_EndOfStreamTick ==
    [][ /\ (op' = "tick" /\ Has(calls', "read_failed") /\ Len(ClipLoaded') >= 1)
           => /\ exc' = "none"
              /\ Count(calls', "EOFError") = 1
              /\ pos' = 0
              /\ roi_pupil' = None /\ roi_refle' = None
              /\ frame' = Some(Resize(ClipLoaded'[1]))
              /\ orig_image' = frame'
              /\ ~Has(calls', "track_pupil") /\ ~Has(calls', "track_refle")
              /\ ~playing' /\ ~timer'
        /\ op' = "on_play_button" => (pos' = pos /\ cap' = cap /\ playing' /\ timer')
        /\ (op' = "tick" /\ calls'[2] = "read")
           => frame'[1].id = ClipLoaded[pos + 1].id ]_vars

C6_Witness ==
    /\ op = "tick" /\ Has(calls, "read_failed") /\ Len(ClipLoaded) >= 1
    /\ exc = "none" /\ ~playing /\ pos = 0

\* C7 as stated: draw_pupil / draw_refle raise AttributeError when the
\* search returns nothing and IndexError for every index outside 0..n-1 when
\* it returns n >= 1 candidates; a call that fails so leaves the frame and
\* its ROI slot unchanged.
C7_DrawRejectsBadIndex ==
    [][ /\ op' = "draw_pupil" =>
             LET f == find_pupils(Self, args'.roi)
                 n == Len(f.val)
                 idx == IF args'.index = None THEN 0 ELSE Get(args'.index)
             IN f.exc = "none" =>
                  /\ n = 0 => exc' = "AttributeError"
                  /\ (n >= 1 /\ idx \notin 0..(n - 1)) => exc' = "IndexError"
                  /\ exc' \in {"AttributeError", "IndexError"}
                        => (frame' = frame /\ roi_pupil' = roi_pupil)
        /\ op' = "draw_refle" =>
             LET f == find_refle(Self, args'.roi)
                 n == Len(f.val)
                 idx == IF args'.index = None THEN 0 ELSE Get(args'.index)
             IN f.exc = "none" =>
                  /\ n = 0 => exc' = "AttributeError"
                  /\ (n >= 1 /\ idx \notin 0..(n - 1)) => exc' = "IndexError"
                  /\ exc' \in {"AttributeError", "IndexError"}
                        => (frame' = frame /\ roi_refle' = roi_refle) ]_vars

FindButton == op \in {"on_find_pupil_button", "on_find_refle_button"}

\* C8 as stated, on a clip that has frames: a find-pupil or find-reflection
\* press always returns; it surfaces neither IndexError nor the RuntimeError
\* of a recursion that never ends.
C8_FindButtonReturns ==
    (FindButton /\ Len(ClipLoaded) >= 1) => exc \notin {"IndexError", "RuntimeError"}

\* C9: get_orig_frame called right after a get_orig_frame that returned
\* returns too and changes nothing: the frame equals the original copy and
\* both ROI slots are unset, as after the first call.
C9_ResetTwice ==
    [][ scenario' = 5 =>
          /\ exc' = "none"
          /\ frame' # None /\ frame' = orig_image'
          /\ roi_pupil' = None /\ roi_refle' = None
          /\ UNCHANGED <<cap, pos, frame, orig_image, dx, dy, roi_pupil, roi_refle,
                         image_bmp>> ]_vars

C9_Witness == scenario = 5 /\ op = "get_orig_frame" /\ exc = "none" /\ frame # None

\* C10: while no frame has been loaded, get_orig_frame raises AttributeError
\* and changes nothing, and the clear and find buttons, which call it, print
\* the error, surface none and draw nothing.
C10_ResetBeforeLoad ==
    [][ orig_image = None =>
          /\ get_orig_frame(Self).exc = "AttributeError"
          /\ get_orig_frame(Self).s = Self
          /\ op' \in {"on_clear_button", "on_find_pupil_button", "on_find_refle_button"}
                => /\ exc' = "none"
                   /\ Has(calls', "print")
                   /\ ~Has(calls', "draw") /\ ~Has(calls', "process_image")
                   /\ UNCHANGED <<cap, pos, frame, orig_image, dx, dy, roi_pupil,
                                  roi_refle, image_bmp, playing, timer>> ]_vars

C10_Witness ==
    /\ op = "on_find_refle_button" /\ orig_image = None /\ frame = None
    /\ Has(calls, "print") /\ exc = "none" /\ image_bmp = None

Inside(c, box) ==
    (box[1][1] < c[1] /\ c[1] < box[2][1]) /\ (box[1][2] < c[2] /\ c[2] < box[2][2])

\* C11 as stated: find_refle called with a roi argument returns no candidate
\* whose truncated rectangle-fit centre lies outside the rectangle passed,
\* whatever the stored reflection ROI is.
C11_RefleInsideArgument ==
    [][ (op' = "find_refle" /\ args'.roi # None /\ exc' = "none")
          => \A i \in DOMAIN find_refle(Self, args'.roi).val :
                Inside(Centroid(find_refle(Self, args'.roi).val[i]), args'.roi) ]_vars

\* position of a returned shape among the contours of the frame
Pos(shapes, c) ==
    CHOOSE k \in DOMAIN shapes :
        shapes[k].area = c.area /\ shapes[k].r = c.r /\ shapes[k].circ = c.circ

\* C12: every shape find_pupils returns has area strictly between 1000 and
\* 5000, at least 5 hull points and circularity below 1.6; the shapes come in
\* the order in which the contours were discovered; the call changes neither
\* the frame, nor the original copy, nor an ROI slot.
C12_FindPupilsFilters ==
    [][ (op' = "find_pupils" /\ exc' = "none") =>
          LET found == find_pupils(Self, args'.roi).val
              all == Shapes(Get(frame))
          IN /\ \A i \in DOMAIN found :
                   /\ 1000 < found[i].area /\ found[i].area < 5000
                   /\ found[i].hull >= 5
                   /\ found[i].circ < 16
                   /\ found[i] \in {all[k] : k \in DOMAIN all}
             /\ \A i, j \in DOMAIN found : i < j => Pos(all, found[i]) < Pos(all, found[j])
             /\ UNCHANGED <<frame, orig_image, roi_pupil, roi_refle>> ]_vars

C12_Witness ==
    /\ op = "find_pupils" /\ exc = "none" /\ roi_pupil # None /\ args.roi = None
    /\ Len(find_pupils(Self, None).val) = 2
    /\ Len(FindContours([img |-> Get(frame), rect |-> Whole(Get(frame))], PupilThresh)) > 2

\* C13: a timer tick with no video loaded fails its read with IOError; the
\* handler ends with playing false and the timer stopped, runs no tracking
\* update and leaves the tracker (frame, original copy, ROI slots, offset,
\* position) and the bitmap as they were.
C13_TickWithoutSource ==
    [][ (op' = "tick" /\ cap = None) =>
          /\ Has(calls', "IOError")
          /\ ~Has(calls', "read") /\ ~Has(calls', "read_failed")
          /\ exc' = "none"
          /\ ~playing' /\ ~timer'
          /\ ~Has(calls', "track_pupil") /\ ~Has(calls', "track_refle")
          /\ UNCHANGED <<cap, pos, frame, orig_image, roi_pupil, roi_refle, dx, dy,
                         image_bmp>> ]_vars

C13_Witness ==
    /\ op = "tick" /\ cap = None /\ Has(calls, "IOError")
    /\ ~playing /\ ~timer /\ frame = None

\* C14: play leaves playing true and the timer running, stop leaves playing
\* false and the timer stopped, and neither touches the tracker; a second
\* play right after a play, or stop right after a stop, changes nothing.
C14_PlayStopIdempotent ==
    [][ /\ op' = "on_play_button" => (playing' /\ timer')
        /\ op' = "on_stop_button" => (~playing' /\ ~timer')
        /\ op' \in {"on_play_button", "on_stop_button"}
              => UNCHANGED <<cap, pos, frame, orig_image, roi_pupil, roi_refle, dx, dy>>
        /\ scenario' \in {6, 7}
              => UNCHANGED <<playing, timer, image_bmp, pupil_index, refle_index>> ]_vars

C14_Witness ==
    /\ scenario = 6 /\ op = "on_play_button" /\ playing /\ timer
    /\ frame # None /\ roi_pupil # None

First(seq, ev) == CHOOSE i \in 1..Len(seq) : seq[i] = ev /\ \A j \in 1..(i - 1) : seq[j] # ev

\* C15: in a timer tick whose read succeeds the pupil update runs, and the
\* reflection update runs only after it; a reflection search of the tick
\* crops at the pupil ROI the tick ends with, which is the square around the
\* pupil the tick's update selected when it selected one, and covers the
\* whole frame at offset (0,0) when the pupil ROI is unset.
C15_PupilBeforeReflection ==
    [][ (op' = "tick" /\ ~Has(calls', "read_failed") /\ Has(calls', "read")) =>
          /\ Has(calls', "track_pupil")
          /\ exc' = "none" => Has(calls', "track_refle")
          /\ Has(calls', "track_refle")
                => First(calls', "track_pupil") < First(calls', "track_refle")
          /\ Has(calls', "draw_pupil") = (roi_pupil # None)
          /\ Has(calls', "draw_refle") = (Has(calls', "track_refle") /\ roi_refle # None)
          /\ sel_pupil' # None => roi_pupil' = Square(Get(sel_pupil'), 100)
          /\ Has(calls', "draw_refle") =>
                /\ First(calls', "track_refle") < First(calls', "draw_refle")
                /\ calls'[Len(calls')] = "process_image"
                /\ IF roi_pupil' = None
                   THEN dx' = Some(0) /\ dy' = Some(0)
                   ELSE dx' = Some(roi_pupil'[1][1]) /\ dy' = Some(roi_pupil'[1][2]) ]_vars

C15_Witness ==
    /\ op = "tick" /\ ~Has(calls, "read_failed") /\ Has(calls, "read") /\ exc = "none"
    /\ sel_pupil = Some(<<310, 250>>) /\ sel_refle # None
    /\ dx = Some(210) /\ dy = Some(150)

\* C16 as stated: a find_pupils call on a loaded frame leaves as crop offset
\* the top-left corner of the sub-rectangle of the frame that the slice
\* selected for processing, (0,0) when no ROI was passed.
C16_OffsetIsCropOrigin ==
    [][ (op' = "find_pupils" /\ frame # None) =>
          IF args'.roi = None
          THEN dx' = Some(0) /\ dy' = Some(0)
          ELSE /\ dx' = Some(Slice(Get(frame), args'.roi).x0)
               /\ dy' = Some(Slice(Get(frame), args'.roi).y0) ]_vars

Unannotated(img) == [img EXCEPT !.ann = {}]

\* C17: the original copy always is the unannotated image with the content
\* of the working frame; it changes only in a call that read a frame, and
\* then it is the downsampled image of a frame of the clip; a frame
\* ingestion and a reset leave the working frame equal to the original
\* copy, hence without annotation; no find, draw, track or reset changes it.
C17_OriginalCopyIsInvariant ==
    [][ /\ orig_image' # None
              => /\ frame' # None
                 /\ orig_image' = Some(Unannotated(Get(frame')))
        /\ orig_image' # orig_image
              => /\ Has(calls', "read")
                 /\ \E i \in 1..Len(ClipLoaded') : orig_image' = Some(Resize(ClipLoaded'[i]))
        /\ (op' = "next_frame" /\ exc' = "none")
              => orig_image' = Some(Resize(ClipLoaded[pos + 1]))
        /\ Ingested' => frame' = orig_image'
        /\ (op' = "get_orig_frame" /\ exc' = "none")
              => (frame' = orig_image' /\ Get(frame').ann = {})
        /\ op' \in {"find_pupils", "find_refle", "draw_pupil", "draw_refle",
                     "track_pupil", "track_refle", "get_orig_frame"}
              => UNCHANGED orig_image ]_vars

C17_Witness ==
    /\ op = "draw_refle" /\ exc = "none"
    /\ Cardinality(Get(frame).ann) >= 3
    /\ orig_image = Some(Resize(Clip1[2]))

\* C18: whenever an ROI slot is set, a working frame and an original copy
\* are present, and no button press or timer tick ends in the TypeError of a
\* search on a missing frame.
C18_RoiImpliesFrame ==
    /\ (roi_pupil # None \/ roi_refle # None) => (frame # None /\ orig_image # None)
    /\ exc # "TypeError"

C18_Witness ==
    /\ op = "tick" /\ Has(calls, "draw_refle") /\ Has(calls, "process_image")
    /\ roi_refle # None /\ roi_pupil = None
    /\ frame # None /\ orig_image # None

\* C19 as stated: next_frame on an opened source returns after storing a
\* frame or raises EOFError after a single failed read and rewind; it never
\* ends in the RuntimeError of a recursion without end.
C19_NextFrameTerminates ==
    (op = "next_frame" /\ cap # None)
        => /\ exc \in {"none", "EOFError"}
           /\ Count(calls, "read_failed") <= 1

\* C20 as stated: a find-pupil, find-reflection or clear press never reads
\* from the frame source: the position stays and the frame keeps its content.
C20_ManualActionReadsNoFrame ==
    [][ op' \in {"on_find_pupil_button", "on_find_refle_button", "on_clear_button"}
          => /\ ~Has(calls', "read") /\ ~Has(calls', "read_failed")
             /\ pos' = pos
             /\ frame # None => Get(frame').id = Get(frame).id ]_vars

====
